---- MODULE Spec2Model ----
(***************************************************************************)
(* The todo page (frontend/src/pages/TodoPage.tsx) and the task/person     *)
(* service it talks to.  The page is modelled from its source; the service *)
(* (not part of the sources at hand) is modelled from its specification.   *)
(*                                                                         *)
(* A request lives in the bag `requests` from the moment a handler sends   *)
(* it until the handler's continuation has consumed the response.  Every   *)
(* handler closes over the `todos` of the render in which it was invoked,  *)
(* so each request carries that captured list.                             *)
(***************************************************************************)
EXTENDS Integers, Sequences, FiniteSets, Bags, TLC

\* ---------------------------------------------------------------- bounds
MaxTodos == 2
MaxInflight == 2
MaxRequests == 5

\* ------------------------------------------------------ values and strings
\* JavaScript null / undefined / NaN, kept apart from the ids (all >= 1).
NULL == 0
UNDEFINED == 0 - 1
NaN == 0 - 2

\* Person ids the service has handed out (one of them with two digits).
PersonIds == {1, 12}

\* A string is the sequence of its characters.
Digits == <<"0", "1", "2", "3", "4", "5", "6", "7", "8", "9">>
EmptyString == <<>>
UnassignedValue == <<"u", "n", "a", "s", "s", "i", "g", "n", "e", "d">>

IsDigit(c) == \E d \in 1..10 : Digits[d] = c
DigitVal(c) == (CHOOSE d \in 1..10 : Digits[d] = c) - 1

\* String(n) for a non-negative integer: its decimal digits.
RECURSIVE String(_)
String(n) ==
    IF n < 10 THEN <<Digits[n + 1]>>
    ELSE String(n \div 10) \o <<Digits[(n % 10) + 1]>>

\* Number(s): '' is 0, a digit string its value, anything else NaN.
RECURSIVE ParseDigits(_, _)
ParseDigits(s, acc) ==
    IF s = <<>> THEN acc
    ELSE ParseDigits(Tail(s), acc * 10 + DigitVal(Head(s)))

Number(s) ==
    IF s = <<>> THEN 0
    ELSE IF \A i \in 1..Len(s) : IsDigit(s[i]) THEN ParseDigits(s, 0)
    ELSE NaN

\* String.prototype.trim on the titles of the model (blank is the only
\* white space).
RECURSIVE TrimStart(_)
TrimStart(s) ==
    IF s # <<>> /\ Head(s) = " " THEN TrimStart(Tail(s)) ELSE s

RECURSIVE TrimEnd(_)
TrimEnd(s) ==
    IF s # <<>> /\ s[Len(s)] = " " THEN TrimEnd(SubSeq(s, 1, Len(s) - 1)) ELSE s

Trim(s) == TrimEnd(TrimStart(s))

\* What the user can have typed into the title input.
Titles == {<<>>, <<" ">>, <<"a">>}

\* The messages of setError; ErrNull is error === null.
ErrNull == "null"
ErrFetch == "Failed to fetch todos"
ErrCreate == "Failed to create todo"
ErrDone == "Failed to mark todo as done"
ErrDelete == "Failed to delete todo"
ErrAssign == "Failed to assign todo"

\* ------------------------------------------------------------------ state
VARIABLES
    srvPeople,          \* service: ids of the persons that exist
    srvTodos,           \* service: the tasks, in insertion order
    nextId,             \* service: next task id to hand out
    todos,              \* page: useState<Todo[]>
    people,             \* page: useState<Person[]> (the ids)
    peoplePending,      \* page: the GET /api/people of the mount is in flight
    newTodoTitle,       \* page: useState('')
    newTodoAssignedTo,  \* page: useState<number | null>(null)
    filterPersonId,     \* page: useState<number | null | undefined>(undefined)
    loading,            \* page: useState(false)
    error,              \* page: useState<string | null>(null)
    requests,           \* bag of the requests in flight
    sent,               \* number of requests sent so far
    submitted,          \* the latest event was a submit of the new-todo form
    settled             \* the mutation whose success was handled with another in flight

vars == <<srvPeople, srvTodos, nextId, todos, people,
          peoplePending, newTodoTitle, newTodoAssignedTo, filterPersonId,
          loading, error, requests, sent, submitted, settled>>

srvVars == <<srvPeople, srvTodos, nextId>>
formVars == <<newTodoTitle, newTodoAssignedTo>>

\* ------------------------------------------------------- sequence helpers
\* Array.prototype.map with (todo) => (todo.id === id ? data : todo)
ReplaceById(ts, id, data) ==
    [i \in 1..Len(ts) |-> IF ts[i].id = id THEN data ELSE ts[i]]

\* Array.prototype.filter with (todo) => todo.id !== id
RECURSIVE RemoveById(_, _)
RemoveById(ts, id) ==
    IF ts = <<>> THEN <<>>
    ELSE IF Head(ts).id = id THEN RemoveById(Tail(ts), id)
    ELSE <<Head(ts)>> \o RemoveById(Tail(ts), id)

Ids(ts) == {ts[i].id : i \in 1..Len(ts)}
Entry(ts, id) == ts[CHOOSE i \in 1..Len(ts) : ts[i].id = id]


\* Stable insertion of t behind every entry that is at least as new.
RECURSIVE InsertNewestFirst(_, _)
InsertNewestFirst(ts, t) ==
    IF ts = <<>> THEN <<t>>
    ELSE IF Head(ts).created_at >= t.created_at
         THEN <<Head(ts)>> \o InsertNewestFirst(Tail(ts), t)
         ELSE <<t>> \o ts

RECURSIVE SortNewestFirst(_)
SortNewestFirst(ts) ==
    IF ts = <<>> THEN <<>>
    ELSE InsertNewestFirst(SortNewestFirst(SubSeq(ts, 1, Len(ts) - 1)), ts[Len(ts)])

RECURSIVE SelectSeqBy(_, _)
SelectSeqBy(ts, keep) ==
    IF ts = <<>> THEN <<>>
    ELSE IF Head(ts).id \in keep THEN <<Head(ts)>> \o SelectSeqBy(Tail(ts), keep)
    ELSE SelectSeqBy(Tail(ts), keep)

\* ---------------------------------------------------------------- requests
\* op: "fetch" | "create" | "done" | "delete" | "assign" of the page, and
\* "remove" (of a person), which another client of the service issues
\* todos: the list the handler closed over; query: <<>> = no parameter,
\* <<s>> = assigned_to_id=s; status: "sent", then "ok" or the error.
Request(op, captured, id, personId, title, query) ==
    [op |-> op, todos |-> captured, id |-> id, personId |-> personId,
     title |-> title, query |-> query, status |-> "sent", data |-> <<>>]

InFlight == BagToSet(requests)
Pending(op) == {r \in InFlight : r.op = op}
Send(reqs, r) == reqs (+) SetToBag({r})
Drop(reqs, r) == reqs (-) SetToBag({r})
Answered(r, status, data) == [r EXCEPT !.status = status, !.data = data]
Respond(r, status, data) ==
    requests' = Send(Drop(requests, r), Answered(r, status, data))

\* ------------------------------------------- the service (from its spec)
References(store, p) == {i \in 1..Len(store) : store[i].assigned_to_id = p}
KnownPerson(p) == p \in srvPeople
KnownTask(id) == id \in Ids(srvTodos)

\* GET tasks[?assigned_to_id=<id>|'']: absent = ALL, '' = UNASSIGNED,
\* digits = BY_PERSON(id).  The decoded filter is UNDEFINED, NULL or an id.
DecodeQuery(query) ==
    IF query = <<>> THEN UNDEFINED
    ELSE IF query[1] = EmptyString THEN NULL
    ELSE Number(query[1])

Matches(t, f) == f = UNDEFINED \/ t.assigned_to_id = f

SrvFilter(store, f) ==
    SortNewestFirst(SelectSeqBy(store, {store[i].id : i \in {j \in 1..Len(store) : Matches(store[j], f)}}))

SrvList(r) ==
    LET f == DecodeQuery(r.query) IN
    /\ IF f \notin {UNDEFINED, NULL} /\ ~KnownPerson(f)
       THEN Respond(r, "NotFoundError", <<>>)
       ELSE Respond(r, "ok", SrvFilter(srvTodos, f))
    /\ UNCHANGED srvVars

\* created_at is the time of the commit.  The clock never runs backwards,
\* and two tasks created one after the other may get the same time: the
\* task with id k is stamped k - 1 or k.
CreatedAtChoices ==
    IF nextId = 1 THEN {nextId} ELSE {nextId - 1, nextId}

SrvCreate(r) ==
    IF r.title = EmptyString
    THEN Respond(r, "ValidationError", <<>>) /\ UNCHANGED srvVars
    ELSE IF r.personId # NULL /\ ~KnownPerson(r.personId)
    THEN Respond(r, "NotFoundError", <<>>) /\ UNCHANGED srvVars
    ELSE \E t \in CreatedAtChoices :
           LET task == [id |-> nextId, title |-> r.title, is_done |-> FALSE,
                        created_at |-> t, assigned_to_id |-> r.personId] IN
           /\ srvTodos' = Append(srvTodos, task)
           /\ nextId' = nextId + 1
           /\ Respond(r, "ok", <<task>>)
           /\ UNCHANGED srvPeople

SrvMarkDone(r) ==
    IF ~KnownTask(r.id)
    THEN Respond(r, "NotFoundError", <<>>) /\ UNCHANGED srvVars
    ELSE LET task == [Entry(srvTodos, r.id) EXCEPT !.is_done = TRUE] IN
         /\ srvTodos' = ReplaceById(srvTodos, r.id, task)
         /\ Respond(r, "ok", <<task>>)
         /\ UNCHANGED <<srvPeople, nextId>>

SrvDelete(r) ==
    IF ~KnownTask(r.id)
    THEN Respond(r, "NotFoundError", <<>>) /\ UNCHANGED srvVars
    ELSE /\ srvTodos' = RemoveById(srvTodos, r.id)
         /\ Respond(r, "ok", <<>>)
         /\ UNCHANGED <<srvPeople, nextId>>

\* (variant: the assignee is not looked up)
SrvAssignUnchecked(r) ==
    IF ~KnownTask(r.id)
    THEN Respond(r, "NotFoundError", <<>>) /\ UNCHANGED srvVars
    ELSE LET task == [Entry(srvTodos, r.id) EXCEPT !.assigned_to_id = r.personId] IN
         /\ srvTodos' = ReplaceById(srvTodos, r.id, task)
         /\ Respond(r, "ok", <<task>>)
         /\ UNCHANGED <<srvPeople, nextId>>

SrvAssign(r) ==
    IF ~KnownTask(r.id) \/ (r.personId # NULL /\ ~KnownPerson(r.personId))
    THEN Respond(r, "NotFoundError", <<>>) /\ UNCHANGED srvVars
    ELSE LET task == [Entry(srvTodos, r.id) EXCEPT !.assigned_to_id = r.personId] IN
         /\ srvTodos' = ReplaceById(srvTodos, r.id, task)
         /\ Respond(r, "ok", <<task>>)
         /\ UNCHANGED <<srvPeople, nextId>>

\* (variant: a person is removed whatever refers to them)
SrvRemoveUnchecked(r) ==
    IF ~KnownPerson(r.personId)
    THEN Respond(r, "NotFoundError", <<>>) /\ UNCHANGED srvVars
    ELSE /\ srvPeople' = srvPeople \ {r.personId}
         /\ Respond(r, "ok", <<>>)
         /\ UNCHANGED <<srvTodos, nextId>>

\* remove(personId): the reference check and the deletion are one step.
SrvRemove(r) ==
    IF ~KnownPerson(r.personId)
    THEN Respond(r, "NotFoundError", <<>>) /\ UNCHANGED srvVars
    ELSE IF References(srvTodos, r.personId) # {}
    THEN Respond(r, "ConflictError", <<>>) /\ UNCHANGED srvVars
    ELSE /\ srvPeople' = srvPeople \ {r.personId}
         /\ Respond(r, "ok", <<>>)
         /\ UNCHANGED <<srvTodos, nextId>>

\* One request is committed, atomically, and its response is on its way.
ServerCommit(r) ==
    /\ r.status = "sent"
    /\ CASE r.op = "fetch" -> SrvList(r)
         [] r.op = "create" -> SrvCreate(r)
         [] r.op = "done" -> SrvMarkDone(r)
         [] r.op = "delete" -> SrvDelete(r)
         [] r.op = "assign" -> SrvAssign(r)
         [] r.op = "remove" -> SrvRemove(r)
    /\ UNCHANGED <<todos, people, peoplePending, formVars, filterPersonId, loading, error, sent>>

\* --------------------------------------------------- the page: conversions
\* (variant: null is treated like undefined and sends no parameter)
EncodeQueryNullAsAbsent(assignedToId) ==
    IF assignedToId = UNDEFINED \/ assignedToId = NULL THEN <<>>
    ELSE <<String(assignedToId)>>

\* fetchTodos: undefined -> no param, null -> '', number -> String(number)
EncodeQuery(assignedToId) ==
    IF assignedToId = UNDEFINED THEN <<>>
    ELSE <<IF assignedToId = NULL THEN EmptyString ELSE String(assignedToId)>>

\* the filter <select>: its value attribute and its onChange
FilterSelectValue(f) ==
    IF f = NULL THEN UnassignedValue
    ELSE IF f = UNDEFINED THEN EmptyString
    ELSE String(f)

ParseFilterValue(value) ==
    IF value = EmptyString THEN UNDEFINED
    ELSE IF value = UnassignedValue THEN NULL
    ELSE Number(value)

FilterOptions == {EmptyString, UnassignedValue} \cup {String(p) : p \in people}

\* the two assignment <select>s: value={x ?? ''} and
\* onChange = e.target.value ? Number(e.target.value) : null
AssignSelectValue(x) == IF x = NULL THEN EmptyString ELSE String(x)
ParseAssignValue(value) == IF value # EmptyString THEN Number(value) ELSE NULL
AssignOptions == {EmptyString} \cup {String(p) : p \in people}

\* (variant: the title is tested without trim)
IsBlankNoTrim(title) == title = EmptyString

\* !newTodoTitle.trim()
IsBlank(title) == Trim(title) = EmptyString

\* (variants: the created todo is appended; the done todo is prepended as a
\* created one is; an assignment only fills an empty one)
AddTodoResultAppend(captured, data) == captured \o <<data>>
MarkDoneResultPrepend(captured, id, data) == <<data>> \o captured
AssignResultKeepPrior(captured, todoId, data) ==
    [i \in 1..Len(captured) |->
        IF captured[i].id = todoId /\ captured[i].assigned_to_id = NULL
        THEN data ELSE captured[i]]

MarkDoneResultAll(captured, id, data) ==
    [i \in 1..Len(captured) |-> [captured[i] EXCEPT !.is_done = data.is_done]]

AssignResultAppend(captured, todoId, data) == captured \o <<data>>

\* the lists the continuations hand to setTodos
AddTodoResult(captured, data) == <<data>> \o captured
MarkDoneResult(captured, id, data) == ReplaceById(captured, id, data)
DeleteResult(captured, id) == RemoveById(captured, id)
AssignResult(captured, todoId, data) == ReplaceById(captured, todoId, data)

\* (variant: the new assignee is shown whatever the response)
AssignSettledOptimistic(current, r) ==
    IF r.status # "ok"
    THEN [i \in 1..Len(r.todos) |->
            IF r.todos[i].id = r.id
            THEN [r.todos[i] EXCEPT !.assigned_to_id = r.personId] ELSE r.todos[i]]
    ELSE AssignResult(r.todos, r.id, r.data[1])

\* todos after handleAssign's continuation: untouched on an error
AssignSettled(current, r) ==
    IF r.status # "ok" THEN current
    ELSE AssignResult(r.todos, r.id, r.data[1])

CanSend == BagCardinality(requests) < MaxInflight /\ sent < MaxRequests

\* ------------------------------------------------------ the page: handlers
\* fetchPeople: the response of the one GET /api/people.  (A failed call
\* leaves people empty, as it is while the call is pending.)
FetchPeopleResponse ==
    /\ peoplePending
    /\ peoplePending' = FALSE
    /\ people' = srvPeople
    /\ UNCHANGED <<srvVars, todos, formVars, filterPersonId, loading, error, requests, sent>>

\* fetchTodos up to its await
FetchTodos(assignedToId) ==
    /\ loading' = TRUE
    /\ error' = ErrNull
    /\ sent' = sent + 1 /\ requests' = Send(requests, Request("fetch", <<>>, NULL, NULL, EmptyString,
                                          EncodeQuery(assignedToId)))

\* fetchTodos from its await on
FetchTodosResponse(r) ==
    /\ r.op = "fetch" /\ r.status # "sent"
    /\ requests' = Drop(requests, r) /\ UNCHANGED sent
    /\ IF r.status # "ok"
       THEN error' = ErrFetch /\ UNCHANGED todos
       ELSE todos' = r.data /\ UNCHANGED error
    /\ loading' = FALSE
    /\ UNCHANGED <<srvVars, people, peoplePending, formVars, filterPersonId>>

\* onChange of the filter <select>, with the effect on [filterPersonId]
ChangeFilter(value) ==
    /\ value \in FilterOptions
    /\ value # FilterSelectValue(filterPersonId)
    /\ CanSend
    /\ filterPersonId' = ParseFilterValue(value)
    /\ FetchTodos(filterPersonId')
    /\ UNCHANGED <<srvVars, todos, people, peoplePending, formVars>>

\* onChange of the title <input> and of the form's <select>
SetNewTodoTitle(title) ==
    /\ ~loading
    /\ title \in Titles /\ title # newTodoTitle
    /\ newTodoTitle' = title
    /\ UNCHANGED <<srvVars, todos, people, peoplePending, newTodoAssignedTo,
                   filterPersonId, loading, error, requests, sent>>

SetNewTodoAssignedTo(value) ==
    /\ ~loading
    /\ value \in AssignOptions /\ value # AssignSelectValue(newTodoAssignedTo)
    /\ newTodoAssignedTo' = ParseAssignValue(value)
    /\ UNCHANGED <<srvVars, todos, people, peoplePending, newTodoTitle,
                   filterPersonId, loading, error, requests, sent>>

\* handleAddTodo up to its await
HandleAddTodo ==
    /\ ~loading
    /\ IF IsBlank(newTodoTitle)
       THEN UNCHANGED <<error, requests, sent>>
       ELSE /\ CanSend
            /\ nextId + Cardinality(Pending("create")) <= MaxTodos
            /\ error' = ErrNull
            /\ sent' = sent + 1 /\ requests' = Send(requests, Request("create", todos, NULL,
                                                  newTodoAssignedTo, newTodoTitle, <<>>))
    /\ UNCHANGED <<srvVars, todos, people, peoplePending, formVars, filterPersonId, loading>>

\* handleAddTodo from its await on
AddTodoResponse(r) ==
    /\ r.op = "create" /\ r.status # "sent"
    /\ requests' = Drop(requests, r) /\ UNCHANGED sent
    /\ IF r.status # "ok"
       THEN error' = ErrCreate /\ UNCHANGED <<todos, formVars>>
       ELSE /\ todos' = AddTodoResult(r.todos, r.data[1])
            /\ newTodoTitle' = EmptyString
            /\ newTodoAssignedTo' = NULL
            /\ UNCHANGED error
    /\ UNCHANGED <<srvVars, people, peoplePending, filterPersonId, loading>>

\* handleMarkDone: the Done button of a listed todo that is not done
HandleMarkDone(i) ==
    /\ ~loading
    /\ i \in 1..Len(todos) /\ ~todos[i].is_done
    /\ CanSend
    /\ error' = ErrNull
    /\ sent' = sent + 1 /\ requests' = Send(requests, Request("done", todos, todos[i].id, NULL, EmptyString, <<>>))
    /\ UNCHANGED <<srvVars, todos, people, peoplePending, formVars, filterPersonId, loading>>

MarkDoneResponse(r) ==
    /\ r.op = "done" /\ r.status # "sent"
    /\ requests' = Drop(requests, r) /\ UNCHANGED sent
    /\ IF r.status # "ok"
       THEN error' = ErrDone /\ UNCHANGED todos
       ELSE todos' = MarkDoneResult(r.todos, r.id, r.data[1]) /\ UNCHANGED error
    /\ UNCHANGED <<srvVars, people, peoplePending, formVars, filterPersonId, loading>>

\* handleDelete: the Delete button of a listed todo
HandleDelete(i) ==
    /\ ~loading
    /\ i \in 1..Len(todos)
    /\ CanSend
    /\ error' = ErrNull
    /\ sent' = sent + 1 /\ requests' = Send(requests, Request("delete", todos, todos[i].id, NULL, EmptyString, <<>>))
    /\ UNCHANGED <<srvVars, todos, people, peoplePending, formVars, filterPersonId, loading>>

DeleteResponse(r) ==
    /\ r.op = "delete" /\ r.status # "sent"
    /\ requests' = Drop(requests, r) /\ UNCHANGED sent
    /\ IF r.status # "ok"
       THEN error' = ErrDelete /\ UNCHANGED todos
       ELSE todos' = DeleteResult(r.todos, r.id) /\ UNCHANGED error
    /\ UNCHANGED <<srvVars, people, peoplePending, formVars, filterPersonId, loading>>

\* handleAssign: onChange of the <select> of a listed todo
HandleAssign(i, value) ==
    /\ ~loading
    /\ i \in 1..Len(todos)
    /\ value \in AssignOptions /\ value # AssignSelectValue(todos[i].assigned_to_id)
    /\ CanSend
    /\ error' = ErrNull
    /\ sent' = sent + 1 /\ requests' = Send(requests, Request("assign", todos, todos[i].id,
                                          ParseAssignValue(value), EmptyString, <<>>))
    /\ UNCHANGED <<srvVars, todos, people, peoplePending, formVars, filterPersonId, loading>>

AssignResponse(r) ==
    /\ r.op = "assign" /\ r.status # "sent"
    /\ requests' = Drop(requests, r) /\ UNCHANGED sent
    /\ todos' = AssignSettled(todos, r)
    /\ IF r.status # "ok" THEN error' = ErrAssign ELSE UNCHANGED error
    /\ UNCHANGED <<srvVars, people, peoplePending, formVars, filterPersonId, loading>>

\* ------------------------------------------- another client of the service
RemovePerson(p) ==
    /\ CanSend
    /\ sent' = sent + 1
    /\ requests' = Send(requests, Request("remove", <<>>, NULL, p, EmptyString, <<>>))
    /\ UNCHANGED <<srvVars, todos, people, peoplePending, formVars, filterPersonId,
                   loading, error>>

RemoveResponse(r) ==
    /\ r.op = "remove" /\ r.status # "sent"
    /\ requests' = Drop(requests, r) /\ UNCHANGED sent
    /\ UNCHANGED <<srvVars, todos, people, peoplePending, formVars, filterPersonId,
                   loading, error>>

\* ---------------------------------------------------------- specification
\* `sent` bounds the length of a session; `submitted` tells a submit of the
\* form apart from the events that leave the state as it is; `settled`
\* remembers, while nothing but commits and mutation responses happens, the
\* mutation whose success was handled while another mutation was in flight.
Mutations == {"create", "done", "delete", "assign"}

SettledNone == [op |-> "none", id |-> NULL, personId |-> NULL]

Settle(r) ==
    [op |-> r.op,
     id |-> IF r.op = "create" THEN r.data[1].id ELSE r.id,
     personId |-> IF r.op = "assign" THEN r.data[1].assigned_to_id ELSE NULL]

\* Two assignments of one todo are ordered by the service (last writer wins),
\* so the first handled of them is not remembered past the second.
SettledAfter(r) ==
    IF r.status # "ok" THEN SettledNone
    ELSE IF \E q \in BagToSet(Drop(requests, r)) : q.op \in Mutations THEN Settle(r)
    ELSE IF r.op = "assign" /\ settled.op = "assign" /\ settled.id = r.id THEN SettledNone
    ELSE settled

\*
\* The page right after its first render and its two mount effects: the
\* people fetch and two fetchTodos(undefined) are in flight.
Init ==
    /\ srvPeople = PersonIds
    /\ srvTodos = <<>>
    /\ nextId = 1
    /\ todos = <<>>
    /\ people = {}
    /\ peoplePending = TRUE
    /\ newTodoTitle = EmptyString
    /\ newTodoAssignedTo = NULL
    /\ filterPersonId = UNDEFINED
    /\ loading = TRUE
    /\ error = ErrNull
    /\ sent = 2
    /\ submitted = FALSE
    /\ settled = SettledNone
    /\ requests = Send(Send(EmptyBag, Request("fetch", <<>>, NULL, NULL, EmptyString, EncodeQuery(UNDEFINED))),
                       Request("fetch", <<>>, NULL, NULL, EmptyString, EncodeQuery(UNDEFINED)))

Next ==
    \/ (FetchPeopleResponse) /\ submitted' = FALSE /\ settled' = SettledNone
    \/ (\E value \in FilterOptions : ChangeFilter(value)) /\ submitted' = FALSE /\ settled' = SettledNone
    \/ (\E title \in Titles : SetNewTodoTitle(title)) /\ submitted' = FALSE /\ settled' = SettledNone
    \/ (\E value \in AssignOptions : SetNewTodoAssignedTo(value)) /\ submitted' = FALSE /\ settled' = SettledNone
    \/ HandleAddTodo /\ submitted' = TRUE /\ settled' = SettledNone
    \/ (\E i \in 1..Len(todos) : HandleMarkDone(i)) /\ submitted' = FALSE /\ settled' = SettledNone
    \/ (\E i \in 1..Len(todos) : HandleDelete(i)) /\ submitted' = FALSE /\ settled' = SettledNone
    \/ (\E i \in 1..Len(todos) : \E value \in AssignOptions : HandleAssign(i, value)) /\ submitted' = FALSE /\ settled' = SettledNone
    \/ (\E r \in InFlight : ServerCommit(r)) /\ submitted' = FALSE /\ UNCHANGED settled
    \/ (\E r \in InFlight : FetchTodosResponse(r)) /\ submitted' = FALSE /\ settled' = SettledNone
    \/ (\E r \in InFlight : AddTodoResponse(r) /\ settled' = SettledAfter(r)) /\ submitted' = FALSE
    \/ (\E r \in InFlight : MarkDoneResponse(r) /\ settled' = SettledAfter(r)) /\ submitted' = FALSE
    \/ (\E r \in InFlight : DeleteResponse(r) /\ settled' = SettledAfter(r)) /\ submitted' = FALSE
    \/ (\E r \in InFlight : AssignResponse(r) /\ settled' = SettledAfter(r)) /\ submitted' = FALSE
    \/ (\E p \in PersonIds : RemovePerson(p)) /\ submitted' = FALSE /\ settled' = SettledNone
    \/ (\E r \in InFlight : RemoveResponse(r)) /\ submitted' = FALSE /\ settled' = SettledNone

Spec == Init /\ [][Next]_vars


\* ------------------------------------------------------------- properties
\* The step hands the response r to its handler's continuation.
Handled(r) == r.status # "sent" /\ requests' = Drop(requests, r)

\* The step commits the request r at the service and answers it with a.
Committed(r, a) ==
    /\ r.status = "sent" /\ a.status # "sent"
    /\ a = Answered(r, a.status, a.data)
    /\ requests' = Send(Drop(requests, r), a)

HasNonBlank(title) == \E i \in 1..Len(title) : title[i] # " "

\* C1: while a person (or Unassigned) is the selected filter and no request
\* is in flight, every displayed todo is assigned to that person (or to
\* nobody).
C1_FilterShowsOnlyMatching ==
    (filterPersonId # UNDEFINED /\ requests = EmptyBag)
        => \A i \in 1..Len(todos) : todos[i].assigned_to_id = filterPersonId

\* C2: ALL sends no assigned_to_id, UNASSIGNED sends the empty string,
\* BY_PERSON(id) sends the decimal string of id; the encodings of the select's
\* options are pairwise distinct, select value -> state -> select value is a
\* round trip, and every change of the filter sends the encoding of the new
\* state.
C2DigitValue(c) ==
    CASE c = "0" -> 0 [] c = "1" -> 1 [] c = "2" -> 2 [] c = "3" -> 3 [] c = "4" -> 4
      [] c = "5" -> 5 [] c = "6" -> 6 [] c = "7" -> 7 [] c = "8" -> 8 [] c = "9" -> 9
      [] OTHER -> NaN

RECURSIVE C2DecimalValue(_)
C2DecimalValue(w) ==
    IF w = <<>> THEN 0
    ELSE 10 * C2DecimalValue(SubSeq(w, 1, Len(w) - 1)) + C2DigitValue(w[Len(w)])

C2IsDecimalOf(w, n) ==
    /\ Len(w) >= 1
    /\ \A i \in 1..Len(w) : C2DigitValue(w[i]) # NaN
    /\ Len(w) > 1 => w[1] # "0"
    /\ C2DecimalValue(w) = n

C2Encodes(query, f) ==
    \/ f = UNDEFINED /\ query = <<>>
    \/ f = NULL /\ query = << <<>> >>
    \/ f \in PersonIds /\ Len(query) = 1 /\ C2IsDecimalOf(query[1], f)

C2Options ==
    /\ \A v \in FilterOptions :
         /\ FilterSelectValue(ParseFilterValue(v)) = v
         /\ C2Encodes(EncodeQuery(ParseFilterValue(v)), ParseFilterValue(v))
    /\ ParseFilterValue(EmptyString) = UNDEFINED
    /\ ParseFilterValue(UnassignedValue) = NULL
    /\ \A p \in people : ParseFilterValue(String(p)) = p
    /\ \A v, w \in FilterOptions :
         v # w => EncodeQuery(ParseFilterValue(v)) # EncodeQuery(ParseFilterValue(w))

C2FilterChangeSends ==
    filterPersonId' # filterPersonId =>
        \E r \in BagToSet(requests') :
            /\ r.op = "fetch" /\ r.status = "sent"
            /\ CopiesIn(r, requests') = CopiesIn(r, requests) + 1
            /\ C2Encodes(r.query, filterPersonId')

C2_FilterEncoding == [](C2Options) /\ [][C2FilterChangeSends]_vars

C2_Witness ==
    /\ filterPersonId = 12
    /\ \E r \in InFlight : r.op = "fetch" /\ r.status = "sent" /\ r.query = << <<"1", "2">> >>

\* C3: every stored task is unassigned or assigned to a person that exists,
\* in every state, whatever the interleaving of remove(p) with the page's
\* assign(t, p) and create(title, p).
C3_NoDanglingAssignee ==
    \A i \in 1..Len(srvTodos) :
        srvTodos[i].assigned_to_id = NULL \/ srvTodos[i].assigned_to_id \in srvPeople

C3_Witness ==
    \E r \in InFlight, a \in InFlight :
        /\ r.op = "remove" /\ r.status = "ok"
        /\ a.op \in {"assign", "create"} /\ a.personId = r.personId
        /\ a.status = "NotFoundError"

\* C4: remove of a known person succeeds iff no task refers to the person
\* when it commits; otherwise it is answered ConflictError and the person
\* stays; the tasks are unchanged either way.
C4RemoveStep ==
    \A r \in InFlight : \A a \in BagToSet(requests') :
        (r.op = "remove" /\ KnownPerson(r.personId) /\ Committed(r, a)) =>
            /\ (a.status = "ok") <=> (\A i \in 1..Len(srvTodos) :
                                         srvTodos[i].assigned_to_id # r.personId)
            /\ a.status = "ok" => srvPeople' = srvPeople \ {r.personId}
            /\ a.status # "ok" => a.status = "ConflictError" /\ srvPeople' = srvPeople
            /\ srvTodos' = srvTodos

C4_RemoveIffUnreferenced == [][C4RemoveStep]_vars

C4_Witness ==
    \E r \in InFlight :
        /\ r.op = "remove" /\ r.status = "ConflictError"
        /\ r.personId \in srvPeople
        /\ \E i \in 1..Len(srvTodos) : srvTodos[i].assigned_to_id = r.personId

\* C5: a failed create, mark-done, delete or assign leaves the displayed
\* list (and the stored tasks and persons) as it was and sets error to the
\* failure message of that operation.
C5Message(op) ==
    CASE op = "create" -> "Failed to create todo"
      [] op = "done" -> "Failed to mark todo as done"
      [] op = "delete" -> "Failed to delete todo"
      [] op = "assign" -> "Failed to assign todo"

C5FailureStep ==
    /\ \A r \in InFlight :
         (r.op \in {"create", "done", "delete", "assign"} /\ r.status # "ok" /\ Handled(r))
             => todos' = todos /\ error' = C5Message(r.op)
    /\ \A r \in InFlight : \A a \in BagToSet(requests') :
         (r.op \in {"create", "done", "delete", "assign"} /\ Committed(r, a)
             /\ a.status # "ok")
             => srvTodos' = srvTodos /\ srvPeople' = srvPeople

C5_FailureHasNoEffect == [][C5FailureStep]_vars

C5_Witness ==
    /\ error = "Failed to assign todo"
    /\ todos # <<>>
    /\ Pending("assign") = {}

\* C6: when the response of a successful handleAssign(t, x) is handled with
\* no other request in flight, t is displayed with assigned_to_id = x, where x
\* is null (the Unassigned option) or a person, whatever t's assignee was
\* before; an assignee is always one person or null.
C6Assignees == {NULL} \cup PersonIds

C6AssignStep ==
    \A r \in InFlight :
        (r.op = "assign" /\ r.status = "ok" /\ Handled(r) /\ requests' = EmptyBag) =>
            /\ r.personId \in C6Assignees
            /\ \E i \in 1..Len(todos') : todos'[i].id = r.id
            /\ \A i \in 1..Len(todos') :
                 todos'[i].id = r.id => todos'[i].assigned_to_id = r.personId

C6Single ==
    /\ \A i \in 1..Len(todos) : todos[i].assigned_to_id \in C6Assignees
    /\ \A i \in 1..Len(srvTodos) : srvTodos[i].assigned_to_id \in C6Assignees
    /\ ParseAssignValue(EmptyString) = NULL
    /\ \A p \in people : ParseAssignValue(String(p)) = p

C6_AssignReplaces == [](C6Single) /\ [][C6AssignStep]_vars

\* a successful reassignment from one person to the other is about to be shown
C6_Witness ==
    \E r \in InFlight :
        /\ requests = SetToBag({r})
        /\ r.op = "assign" /\ r.status = "ok" /\ r.personId = 12
        /\ \E i \in 1..Len(r.todos) : r.todos[i].id = r.id /\ r.todos[i].assigned_to_id = 1
        /\ \E i \in 1..Len(todos) : todos[i].id = r.id /\ todos[i].assigned_to_id = 1

\* C7: is_done never goes back to false: not for a stored task, and not for
\* a displayed todo, whatever response is handled next.
C7Step ==
    /\ \A i \in 1..Len(srvTodos) : \A j \in 1..Len(srvTodos') :
         (srvTodos[i].is_done /\ srvTodos'[j].id = srvTodos[i].id) => srvTodos'[j].is_done
    /\ \A i \in 1..Len(todos) : \A j \in 1..Len(todos') :
         (todos[i].is_done /\ todos'[j].id = todos[i].id) => todos'[j].is_done

C7_DoneIsMonotonic == [][C7Step]_vars

\* C8: a second handleMarkDone(id) on a task that is already done is answered
\* without an error by the task as it is stored, leaves the store as it is,
\* sets no error, and shows the list the handler captured with the entries of
\* id replaced by that done task: the same as one call.
C8Step ==
    /\ \A r \in InFlight : \A a \in BagToSet(requests') :
         (r.op = "done" /\ Committed(r, a) /\ KnownTask(r.id)
             /\ Entry(srvTodos, r.id).is_done) =>
             /\ a.status = "ok"
             /\ a.data = <<Entry(srvTodos, r.id)>>
             /\ srvTodos' = srvTodos
    /\ \A r \in InFlight :
         (r.op = "done" /\ r.status = "ok" /\ Handled(r)) =>
             /\ error' = error
             /\ r.data[1].is_done
             /\ Len(todos') = Len(r.todos)
             /\ \A i \in 1..Len(r.todos) :
                  todos'[i] = IF r.todos[i].id = r.id THEN r.data[1] ELSE r.todos[i]

C8_MarkDoneIdempotent == [][C8Step]_vars

\* the same Done button was pressed twice and both calls are answered
C8_Witness ==
    \E r \in InFlight :
        /\ r.op = "done" /\ r.status = "ok"
        /\ CopiesIn(r, requests) = 2
        /\ \E i \in 1..Len(r.todos) : r.todos[i].id = r.id /\ ~r.todos[i].is_done

\* C9: the displayed list is newest-first: no todo is listed before one that
\* was created later.
C9_NewestFirst ==
    \A i \in 1..(Len(todos) - 1) : todos[i].created_at >= todos[i + 1].created_at

C9_Witness ==
    /\ Len(todos) = 2
    /\ todos[1].id # todos[2].id
    /\ todos[1].created_at > todos[2].created_at
    /\ \E r \in InFlight : r.op = "create" /\ r.status = "ok" /\ Len(r.todos) = 1

\* C10: a submit with an empty or blank title sends nothing and changes
\* nothing; every create request, and every stored task, has a title with a
\* character that is not white space.
C10Titles ==
    /\ \A r \in InFlight : r.op = "create" => HasNonBlank(r.title)
    /\ \A i \in 1..Len(srvTodos) : HasNonBlank(srvTodos[i].title)

C10BlankSubmit ==
    (submitted' /\ ~HasNonBlank(newTodoTitle)) =>
        UNCHANGED <<srvPeople, srvTodos, nextId, todos, people, peoplePending,
                    newTodoTitle, newTodoAssignedTo, filterPersonId, loading, error,
                    requests, sent>>

C10_NoBlankTitle == [](C10Titles) /\ [][C10BlankSubmit]_vars

C10_Witness ==
    /\ submitted
    /\ newTodoTitle = <<" ">>
    /\ todos # <<>>
    /\ requests = EmptyBag

\* C11: when two mutation requests are in flight at the same time and both
\* succeed, then once both responses have been handled the displayed list
\* reflects the one handled first as well: a created todo is displayed, a
\* deleted todo is not, a todo marked done is displayed as done and an
\* assigned todo with the assignee the service returned.
C11Reflects(s, list) ==
    CASE s.op = "create" -> s.id \in Ids(list)
      [] s.op = "delete" -> s.id \notin Ids(list)
      [] s.op = "done" -> \A i \in 1..Len(list) : list[i].id = s.id => list[i].is_done
      [] s.op = "assign" ->
            \A i \in 1..Len(list) : list[i].id = s.id => list[i].assigned_to_id = s.personId
      [] OTHER -> TRUE

C11_NoLostOperation ==
    (settled.op # "none" /\ \A r \in InFlight : r.op \notin Mutations)
        => C11Reflects(settled, todos)

\* C12: every change of the filter sends a fetch for the new value, and when
\* the last todos fetch in flight is answered (no fetch of the session has
\* failed), the list it displays is the answer to a fetch sent for the filter
\* that is selected then, whatever the order of the responses.
C12LastFetchIsCurrent ==
    \A r \in InFlight :
        (/\ Handled(r) /\ r.op = "fetch" /\ r.status = "ok"
         /\ \A q \in BagToSet(requests') : q.op # "fetch"
         /\ srvPeople = PersonIds)
            => (todos' = r.data /\ C2Encodes(r.query, filterPersonId'))

C12_FilterShowsCurrentSelection ==
    [][C2FilterChangeSends /\ C12LastFetchIsCurrent]_vars

\* C13: once the success response of handleDelete(id) has been handled (the
\* service has deleted id, no delete of id is in flight) and id is not
\* displayed, no step puts a todo with that id back into the displayed list.
C13Deleted(id) ==
    /\ id \notin Ids(srvTodos)
    /\ \A r \in Pending("delete") : r.id # id
    /\ id \notin Ids(todos)

C13_DeletedStaysDeleted ==
    [][\A id \in 1..(nextId - 1) : C13Deleted(id) => id \notin Ids(todos')]_vars

\* C14: a successful response of handleMarkDone(id) or handleAssign(id, x)
\* changes only the entry with that id: the list it displays has the length
\* and the order of ids of the list the handler captured, every entry with
\* another id is the captured one, the list is the captured one if no entry
\* has the id; people, the filter and the form fields stay as they are.
C14Step ==
    \A r \in InFlight :
        (r.op \in {"done", "assign"} /\ r.status = "ok" /\ Handled(r)) =>
            /\ Len(todos') = Len(r.todos)
            /\ \A i \in 1..Len(r.todos) :
                 /\ todos'[i].id = r.todos[i].id
                 /\ r.todos[i].id # r.id => todos'[i] = r.todos[i]
            /\ r.id \notin Ids(r.todos) => todos' = r.todos
            /\ UNCHANGED <<people, filterPersonId, newTodoTitle, newTodoAssignedTo>>

C14_OnlyTargetEntryChanges == [][C14Step]_vars

\* the older of two displayed todos has been marked done, the newer has not
C14_Witness ==
    /\ Len(todos) = 2
    /\ todos[1].id # todos[2].id
    /\ todos[2].is_done /\ ~todos[1].is_done
    /\ settled.op = "none"
    /\ requests = EmptyBag

\* C15: loading is true in every state in which a todos fetch is in flight,
\* also when several fetches overlap, and it is false once every todos fetch
\* has been answered and handled, with success or with failure.
C15_LoadingCoversFetches ==
    /\ Pending("fetch") # {} => loading
    /\ Pending("fetch") = {} => ~loading

\* C16: the displayed list never holds two entries with the same id, under
\* every interleaving of the responses of fetches, creates, mark-dones,
\* assigns and deletes (the service hands out each id once and answers a
\* fetch without duplicates).
C16_NoDuplicateIds ==
    \A i, j \in 1..Len(todos) : i # j => todos[i].id # todos[j].id

\* two todos are displayed after the responses of two overlapping mutations
C16_Witness ==
    /\ Len(todos) = 2
    /\ settled.op # "none"
    /\ requests = EmptyBag

====
